---- MODULE Spec2Model ----
(***************************************************************************)
(* A model of the request-audit pipeline of web-clean: the gin middleware  *)
(* chain RequestIDMiddleware -> ErrorPersisterMiddleware -> Recover ->     *)
(* ContextMiddleware -> business handler, the per-request log collector    *)
(* webLog, and the two persisters repository.Logs and repository.Errors.   *)
(***************************************************************************)
EXTENDS Integers, Sequences, FiniteSets, TLC

(***************************************************************************)
(* Bounds of the model.                                                    *)
(***************************************************************************)
\* the number of operations (log call, c.Error, c.JSON) one handler performs
MaxOps == 2
\* the number of Errors.Persist calls explored by SpecPersist
MaxPersists == 2
\* the calls each concurrent request makes on its collector
MaxConcLogs == 2
\* the calls made on the UserService
MaxUserCalls == 2
IntBits == 16

(***************************************************************************)
(* Values handed to the loggers and to encoding/json.                      *)
(***************************************************************************)
Str(s) == [t |-> "str", v |-> s]
Arr(q) == [t |-> "arr", v |-> q]
Func == [t |-> "func", v |-> "func()"]

RECURSIVE jsonText(_)
RECURSIVE jsonJoin(_)
RECURSIVE jsonOk(_)

\* json.Marshal fails on a value that holds a func (UnsupportedTypeError)
jsonOk(x) ==
    CASE x.t = "str" -> TRUE
      [] x.t = "func" -> FALSE
      [] x.t = "arr" -> \A i \in 1..Len(x.v) : jsonOk(x.v[i])

\* the elements of a slice, comma separated
jsonJoin(q) ==
    IF q = <<>> THEN ""
    ELSE IF Len(q) = 1 THEN jsonText(q[1])
    ELSE jsonText(q[1]) \o "," \o jsonJoin(Tail(q))

\* the text json.Marshal produces: a string is quoted, a nil slice is null
jsonText(x) ==
    CASE x.t = "str" -> "\"" \o x.v \o "\""
      [] x.t = "func" -> "func()"
      [] x.t = "arr" -> IF x.v = <<>> THEN "null" ELSE "[" \o jsonJoin(x.v) \o "]"

Levels == {"DEBUG", "INFO", "WARN", "ERROR", "DPANIC", "PANIC", "FATAL"}
Forms == {"plain", "f", "w"}
\* the 21 methods of webLog: Debug, Debugf, Debugw, ... , Fatalw
Methods == Levels \X Forms

\* arguments a handler passes to a logging call: a message, and the rest
LogMsgs == {"start"}
LogRest == {<<>>, <<Str("id")>>, <<Func>>}


(***************************************************************************)
(* The state.  One request travels through the chain; the stores, the      *)
(* fallback directory and the base logger outlive it.                      *)
(***************************************************************************)
VARIABLES
    pc,          \* the stage the request is in
    header,      \* the inbound X-Request-ID header: [present, value]
    wiring,      \* what main registered: which panicHandler, ContextMiddleware or not
    keys,        \* gin.Context.Keys, the request-scoped slot
    reqIDLocal,  \* ErrorPersisterMiddleware's local requestID
    ginErrors,   \* gin.Context.Errors
    logs,        \* webLogger.logs, nil before ContextMiddleware builds it
    panicking,   \* the panic unwinding the stack, or NoPanic
    response,    \* what has been written to the client
    ops,         \* operations the handler has performed
    handlerExit, \* how the business handler ended, and what it had written
    recovered,   \* the stages that recovered a panic, in order
    baseLog,     \* what the base logger (zap) has emitted
    auditCalls,  \* the arguments of LogPersister.Persist, in call order
    auditStore,  \* the LogsModel rows committed
    auditResult, \* what the last LogPersister.Persist call did
    errCalls,    \* the arguments of ErrorStackPersister.Persist, in call order
    errStore,    \* the ErrorModel rows committed
    dirExists,   \* whether the fallback directory exists
    files,       \* the files of the fallback directory: path -> chunks written
    persists,    \* Errors.Persist calls made on their own (SpecPersist)
    inflight,    \* concurrent requests: the stage each request is in
    ctxSlot,     \* concurrent requests: each request's webContextKey slot
    webLoggers,  \* concurrent requests: the logs of each request's webLog
    collected,   \* concurrent requests: the calls made on each request's collector
    handed,      \* concurrent requests: the LogPersister.Persist calls, in order
    users,       \* the users table
    clock,       \* the last value time.Now() returned
    uuids,       \* how many IDs uuid.New() has returned
    calls,       \* how many UserService calls were made
    call,        \* the last UserService call: request, result, repository calls
    svcLog,      \* what that call wrote to the service's logger
    creating     \* the CreateUser calls under way at once: [pc, req, outs, user, err] each

pipeVars == <<pc, header, wiring, keys, reqIDLocal, ginErrors, logs, panicking, response,
              ops, handlerExit, recovered, auditCalls, auditStore, auditResult,
              errCalls>>
sinkVars == <<baseLog, errStore, dirExists, files>>
concVars == <<inflight, ctxSlot, webLoggers, collected, handed>>
userVars == <<users, clock, uuids, calls, call, svcLog, creating>>
vars == <<pipeVars, sinkVars, persists, concVars, userVars>>

NoPanic == [kind |-> "none", v |-> ""]
NoValue == [set |-> FALSE]
Value(v) == [set |-> TRUE, v |-> v]

\* the request under study (net/http's view of it)
Request == [Method |-> "GET", URL |-> "/api/v1/?id=1", Path |-> "/api/v1/",
            IP |-> "10.0.0.1"]
\* inbound X-Request-ID headers: none, one with an empty value, one with a value
Headers == {[present |-> FALSE, value |-> ""], [present |-> TRUE, value |-> ""],
            [present |-> TRUE, value |-> "req-7"]}
\* what uuid.NewString() may return
Tokens == {"uuid-1", "uuid-2"}

idKey == "__idKey__"
webContextKey == "__webCtxKey__"
KeyNames == {idKey, "X-Request-ID", webContextKey}

\* gin.Context.GetHeader: the first value, "" when the header is absent
GetHeader(h) == IF h.present THEN h.value ELSE ""

\* gin.Context.Set
Set(k, name, v) == [k EXCEPT ![name] = Value(v)]

\* RequestIdGetter reading the key that is set only for a generated ID
RequestIdGetterHeaderKey(k) ==
    IF ~k["X-Request-ID"].set THEN "" ELSE k["X-Request-ID"].v

\* web.RequestIdGetter
RequestIdGetter(k) == IF ~k[idKey].set THEN "" ELSE k[idKey].v

\* a getter that takes any value in the slot for a Request Context
ContextMiddlewareGetterAnyValue(k) == k[webContextKey].set

\* web.ContextMiddlewareGetter: found only when the slot holds a *Context
ContextMiddlewareGetter(k) ==
    IF ~k[webContextKey].set THEN FALSE
    ELSE k[webContextKey].v = "webCtx"

(***************************************************************************)
(* The Request Log Collector (webLog) over the base logger (zap).          *)
(***************************************************************************)
\* What the base logger does after writing the record.  Zap() builds the
\* logger from zap.NewDevelopmentConfig: Panic* and, in development, DPanic*
\* panic, Fatal* calls os.Exit(1), the others return.
InnerOutcome(level) ==
    CASE level \in {"PANIC", "DPANIC"} -> "panic"
      [] level = "FATAL" -> "exit"
      [] OTHER -> "return"

\* the level string each webLog method hands to appendToLogs
webLogTag(m) == m[1]

\* the variadic slice each webLog method hands to appendToLogs: the plain
\* form spreads its arguments, the f and w forms pass the template and the
\* argument slice as two elements
webLogArgs(m, msg, rest) ==
    IF m[2] = "plain" THEN <<Str(msg)>> \o rest
    ELSE <<Str(msg), Arr(rest)>>

\* an appendToLogs that keeps the first argument as the message
appendToLogsFirstArg(l, level, args) ==
    Append(l, [Level |-> level, Msg |-> args[1].v])

\* webLog.appendToLogs: the JSON text of the arguments, or on a Marshal error
\* a message that names the error and the arguments (its Chinese wording is
\* given in English here, as are the messages of the other records)
appendToLogs(l, level, args) ==
    LET msg == IF jsonOk(Arr(args)) THEN jsonText(Arr(args))
               ELSE "marshal error: json: unsupported type: func(), args: "
                    \o jsonText(Arr(args))
    IN Append(l, [Level |-> level, Msg |-> msg])

\* one record of the base logger: who called it, the level, the message and
\* the keyed values
Emit(via, level, msg, kv) ==
    [via |-> via, level |-> level, msg |-> msg, kv |-> kv, form |-> "w"]
\* the record of a call that a webLog method forwards, with the form of the
\* method (Info, Infof, Infow, ...); the other callers use the w form
Forward(m, msg, rest) ==
    [via |-> "webLog", level |-> m[1], msg |-> msg, kv |-> rest, form |-> m[2]]

RawPanic(v) == [kind |-> "raw", v |-> v]
\* handler.ServerInternalError with its pre-built Body
ServerInternalError(body) == [kind |-> "sie", v |-> body]

(***************************************************************************)
(* gin.Context.JSON: the first write fixes the status, later writes only   *)
(* add to the body.                                                        *)
(***************************************************************************)
NoResponse == [written |-> FALSE, status |-> 0, body |-> <<>>]
\* a JSON object a handler renders (gin.H, a DTO)
Obj(v) == [kind |-> "obj", v |-> v]
JSON(r, code, obj) ==
    IF r.written THEN [r EXCEPT !.body = Append(@, obj)]
    ELSE [written |-> TRUE, status |-> code, body |-> <<obj>>]

(***************************************************************************)
(* The persisters (repository.Logs, repository.Errors).                    *)
(***************************************************************************)
\* how a Database.Transaction call may end: it commits, returns an error, or
\* panics (Database is an interface; gorm re-raises a panic after rollback)
DbOutcomes == {"commit", "error", "panic"}
\* how saveToFile's three system calls may end
FsOutcomes == {"ok", "mkdirFail", "openFail", "writeFail", "writeShort"}
\* time.Now() formatted as 20060102T150405.000
Times == {"20260101T000000.000", "20260101T000000.001"}
FallbackFilePath == "errors"

\* Logs.Persist: one transactional Create of the whole buffer; the error is
\* returned to the caller
LogsPersist(store, buffer, out) ==
    [store |-> IF out = "commit" THEN Append(store, buffer) ELSE store,
     err |-> out = "error",
     panic |-> out = "panic"]

\* json.MarshalIndent of a web.Errors: the exported fields under their names
MarshalIndent(rec) ==
    [indent |-> "  ",
     fields |-> << <<"Stack", rec.Stack>>, <<"Method", rec.Method>>,
                   <<"URL", rec.URL>>, <<"Path", rec.Path>>, <<"IP", rec.IP>>,
                   <<"RequestID", rec.RequestID>> >>]

\* a file name without the timestamp
FileNameNoTime(rec, now) == "error_" \o rec.RequestID \o ".json"

\* the name saveToFile gives the file, joined to the fallback directory
FileName(rec, now) == "error_" \o rec.RequestID \o "_" \o now \o ".json"
FullPath(rec, now) == FallbackFilePath \o "/" \o FileName(rec, now)

\* what a Write that fails part-way leaves of the data
Partial(data) == [partial |-> data]

\* Errors.saveToFile: MkdirAll, OpenFile(O_CREATE|O_WRONLY|O_APPEND), Write.
\* MkdirAll succeeds on a directory that exists; a failed Write has written
\* nothing or a part of the data.
saveToFile(dir, fls, rec, out, now) ==
    LET data == MarshalIndent(rec)
        path == FullPath(rec, now)
        old == IF path \in DOMAIN fls THEN fls[path] ELSE <<>>
        with(c) == [q \in DOMAIN fls \cup {path} |-> IF q = path THEN c ELSE fls[q]]
    IN CASE out = "mkdirFail" /\ ~dir ->
              [dir |-> dir, files |-> fls, err |-> "mkdir failed"]
         [] out = "openFail" ->
              [dir |-> TRUE, files |-> fls, err |-> "open failed"]
         [] out = "writeFail" ->
              [dir |-> TRUE, files |-> with(old), err |-> "write failed"]
         [] out = "writeShort" ->
              [dir |-> TRUE, files |-> with(Append(old, Partial(data))),
               err |-> "write failed"]
         [] OTHER ->
              [dir |-> TRUE, files |-> with(Append(old, data)), err |-> ""]

\* the error a failed Transaction returns
StoreError == "transaction failed"

\* Errors.Persist that drops the report without a record
ErrorsPersistSilent(store, dir, fls, log, rec, dbOut, fsOut, now) ==
    IF dbOut = "commit"
    THEN [store |-> Append(store, rec), dir |-> dir, files |-> fls, log |-> log,
          panic |-> FALSE]
    ELSE IF dbOut = "panic"
    THEN [store |-> store, dir |-> dir, files |-> fls, log |-> log, panic |-> TRUE]
    ELSE LET f == saveToFile(dir, fls, rec, fsOut, now)
         IN [store |-> store, dir |-> f.dir, files |-> f.files, log |-> log,
             panic |-> FALSE]

\* Errors.Persist: the store, then the file, then one error-level record
\* that carries the file error and the report. The err of the record is the
\* one declared inside the if, saveToFile's; it hides the Transaction's.
ErrorsPersist(store, dir, fls, log, rec, dbOut, fsOut, now) ==
    IF dbOut = "commit"
    THEN [store |-> Append(store, rec), dir |-> dir, files |-> fls, log |-> log,
          panic |-> FALSE]
    ELSE IF dbOut = "panic"
    THEN [store |-> store, dir |-> dir, files |-> fls, log |-> log, panic |-> TRUE]
    ELSE LET err == StoreError
             f == saveToFile(dir, fls, rec, fsOut, now)
         IN [store |-> store, dir |-> f.dir, files |-> f.files,
             log |-> IF f.err # ""
                     THEN Append(log, Emit("Errors.Persist", "ERROR",
                                           "cannot write the error stack to the database or to the file",
                                           <<"err", f.err, "errors", rec>>))
                     ELSE log,
             panic |-> FALSE]

\* the outcomes saveToFile can have given the directory's state
FsOutcomesFor(dir) == IF dir THEN FsOutcomes \ {"mkdirFail"} ELSE FsOutcomes

\* the two main functions of the repository: cmd/main.go and the one of the
\* layered rewrite; they register the same chain with different panicHandlers
Mains == {"cmd", "clean"}

\* the stage that resumes when the handler ends: ContextMiddleware's deferred
\* functions where it is registered, else Recover's
HandlerExitStage(w) == IF w.context THEN "ctxExit" ELSE "recoverExit"

\* how the handler ended ("none" while it runs), the response it had written
\* by then and the value it panicked with
Ended(how, r, p) == [how |-> how, response |-> r, panic |-> p]

\* the requests of the concurrent specification, and their state while no
\* request is in flight
Requests == {1, 2}
NoRequests ==
    /\ inflight = [r \in Requests |-> "none"]
    /\ ctxSlot = [r \in Requests |-> "unset"]
    /\ webLoggers = [r \in Requests |-> <<>>]
    /\ collected = [r \in Requests |-> <<>>]
    /\ handed = <<>>

\* the user service before any call
NoCall == [op |-> "none"]
NoUserCalls ==
    /\ users = {}
    /\ clock = 0
    /\ uuids = 0
    /\ calls = 0
    /\ call = NoCall
    /\ svcLog = <<>>
    /\ creating = <<>>

(***************************************************************************)
(* The middleware chain, as main registers it:                             *)
(*   RequestIDMiddleware, ErrorPersisterMiddleware, Recover,               *)
(*   ContextMiddleware, handler.                                           *)
(* Each stage has an entry step (the code before context.Next()) and an    *)
(* exit step (the code after it and the deferred functions).               *)
(***************************************************************************)
Init ==
    /\ pc = "idStage"
    /\ header \in Headers
    /\ wiring \in {[main |-> m, context |-> TRUE] : m \in Mains}
    /\ keys = [k \in KeyNames |-> NoValue]
    /\ reqIDLocal = ""
    /\ ginErrors = <<>>
    /\ logs = <<>>
    /\ panicking = NoPanic
    /\ response = NoResponse
    /\ ops = 0
    /\ handlerExit = Ended("none", NoResponse, NoPanic)
    /\ recovered = <<>>
    /\ baseLog = <<>>
    /\ auditCalls = <<>>
    /\ auditStore = <<>>
    /\ auditResult = "none"
    /\ errCalls = <<>>
    /\ errStore = <<>>
    /\ dirExists = FALSE
    /\ files = [q \in {} |-> <<>>]
    /\ persists = <<>>
    /\ NoRequests
    /\ NoUserCalls

\* the keys RequestIDMiddleware leaves behind; tok is what idGen() returns
RequestIDKeys(k, h, tok) ==
    LET requestID == GetHeader(h)
    IN IF requestID = ""
       THEN Set(Set(k, "X-Request-ID", tok), idKey, tok)
       ELSE Set(k, idKey, requestID)

RequestIDMiddleware ==
    /\ pc = "idStage"
    /\ \E tok \in Tokens : keys' = RequestIDKeys(keys, header, tok)
    /\ pc' = "errStage"
    /\ UNCHANGED <<header, wiring, concVars, userVars, reqIDLocal, ginErrors, logs, panicking, response, ops,
                   handlerExit, recovered, auditCalls, auditStore, auditResult, errCalls,
                   sinkVars, persists>>

\* ErrorPersisterMiddleware before context.Next(): the request's data is read
ErrorPersisterEnter ==
    /\ pc = "errStage"
    /\ reqIDLocal' = RequestIdGetter(keys)
    /\ pc' = "recoverStage"
    /\ UNCHANGED <<header, wiring, concVars, userVars, keys, ginErrors, logs, panicking, response, ops,
                   handlerExit, recovered, auditCalls, auditStore, auditResult, errCalls,
                   sinkVars, persists>>

\* Recover before context.Next(): the deferred recover is registered
RecoverEnter ==
    /\ pc = "recoverStage"
    /\ pc' = IF wiring.context THEN "ctxStage" ELSE "handler"
    /\ UNCHANGED <<header, wiring, concVars, userVars, keys, reqIDLocal, ginErrors, logs, panicking, response,
                   ops, handlerExit, recovered, auditCalls, auditStore, auditResult, errCalls,
                   sinkVars, persists>>

\* ContextMiddleware that hands the buffer to the Audit Persister before it
\* calls context.Next()
ContextMiddlewareEnterPersistFirst ==
    /\ pc = "ctxStage"
    /\ logs' = <<>>
    /\ auditCalls' = Append(auditCalls, <<>>)
    /\ keys' = Set(keys, webContextKey, "webCtx")
    /\ pc' = "handler"
    /\ UNCHANGED <<header, wiring, concVars, userVars, reqIDLocal, ginErrors, panicking, response, ops,
                   handlerExit, recovered, auditStore, auditResult, errCalls,
                   sinkVars, persists>>

\* ContextMiddleware before context.Next(): the buffer, the collector and the
\* Request Context are built and the context is stored in the slot
ContextMiddlewareEnter ==
    /\ pc = "ctxStage"
    /\ logs' = <<>>
    /\ keys' = Set(keys, webContextKey, "webCtx")
    /\ pc' = "handler"
    /\ UNCHANGED <<header, wiring, concVars, userVars, reqIDLocal, ginErrors, panicking, response, ops,
                   handlerExit, recovered, auditCalls, auditStore, auditResult, errCalls,
                   sinkVars, persists>>

(***************************************************************************)
(* The business handler: any sequence of at most MaxOps operations on the  *)
(* request, ended by a return or a panic.                                  *)
(***************************************************************************)
\* the logging calls a handler makes: every method with a message alone, and
\* Infow with each kind of argument list
HandlerLogCalls ==
    {<<m, msg, <<>>>> : m \in Methods, msg \in LogMsgs}
    \cup {<<<<"INFO", "w">>, msg, rest>> : msg \in LogMsgs, rest \in LogRest}
ErrMsgs == {"a custom error"}
Bodies == {Obj("user")}
PanicValues == {RawPanic("boom"), ServerInternalError("out of service")}

\* one call of a webLog method on the collector of the Request Context: the
\* call is forwarded to the base logger first, and the record is appended
\* when the base logger returns
HandlerLog ==
    /\ pc = "handler"
    /\ ops < MaxOps
    /\ ContextMiddlewareGetter(keys)
    /\ \E c \in HandlerLogCalls :
         LET m == c[1]
             out == InnerOutcome(m[1])
         IN /\ baseLog' = Append(baseLog, Forward(m, c[2], c[3]))
            /\ logs' = IF out = "return"
                       THEN appendToLogs(logs, webLogTag(m), webLogArgs(m, c[2], c[3]))
                       ELSE logs
            /\ panicking' = IF out = "panic" THEN RawPanic(c[2]) ELSE panicking
            /\ handlerExit' = IF out = "panic"
                              THEN Ended("panic", response, RawPanic(c[2]))
                              ELSE handlerExit
            /\ pc' = CASE out = "panic" -> HandlerExitStage(wiring)
                       [] out = "exit" -> "exited"
                       [] OTHER -> pc
    /\ ops' = ops + 1
    /\ UNCHANGED <<header, wiring, concVars, userVars, keys, reqIDLocal, ginErrors, response, recovered,
                   auditCalls, auditStore, auditResult, errCalls, errStore, dirExists, files,
                   persists>>

\* c.Error(err)
HandlerError ==
    /\ pc = "handler"
    /\ ops < MaxOps
    /\ \E e \in ErrMsgs : ginErrors' = Append(ginErrors, e)
    /\ ops' = ops + 1
    /\ UNCHANGED <<pc, header, wiring, concVars, userVars, keys, reqIDLocal, logs, panicking, response,
                   handlerExit, recovered, auditCalls, auditStore, auditResult, errCalls,
                   sinkVars, persists>>

\* c.JSON(code, obj)
HandlerJSON ==
    /\ pc = "handler"
    /\ ops < MaxOps
    /\ \E code \in {200, 404}, b \in Bodies : response' = JSON(response, code, b)
    /\ ops' = ops + 1
    /\ UNCHANGED <<pc, header, wiring, concVars, userVars, keys, reqIDLocal, ginErrors, logs, panicking,
                   handlerExit, recovered, auditCalls, auditStore, auditResult, errCalls,
                   sinkVars, persists>>

HandlerReturn ==
    /\ pc = "handler"
    /\ handlerExit' = Ended("return", response, NoPanic)
    /\ pc' = HandlerExitStage(wiring)
    /\ UNCHANGED <<header, wiring, concVars, userVars, keys, reqIDLocal, ginErrors, logs, panicking, response,
                   ops, recovered, auditCalls, auditStore, auditResult, errCalls, sinkVars,
                   persists>>

\* panic(v) in the handler, PanicServerInternalError included
HandlerPanic ==
    /\ pc = "handler"
    /\ \E v \in PanicValues :
         /\ panicking' = v
         /\ handlerExit' = Ended("panic", response, v)
    /\ pc' = HandlerExitStage(wiring)
    /\ UNCHANGED <<header, wiring, concVars, userVars, keys, reqIDLocal, ginErrors, logs, response, ops,
                   recovered, auditCalls, auditStore, auditResult, errCalls, sinkVars,
                   persists>>

\* handler.WebContextNotFoundError, as gin's error list prints it
WebContextNotFoundError == "WebContextMust not found, check WebContextMiddleware"
\* a WebContextMust that panics with a plain value
WebContextMustPanicPlain == RawPanic("WebContextMust not found")
\* the panic value WebContextMust builds
WebContextMustPanic == ServerInternalError("WebContextMust not found")

\* Base.WebContextMust(c): the Request Context when the getter finds it;
\* otherwise the error is recorded on the request and the call panics
WebContextMust ==
    /\ pc = "handler"
    /\ ops < MaxOps
    /\ ops' = ops + 1
    /\ IF ContextMiddlewareGetter(keys)
       THEN UNCHANGED <<pc, ginErrors, panicking, handlerExit>>
       ELSE /\ ginErrors' = Append(ginErrors, WebContextNotFoundError)
            /\ panicking' = WebContextMustPanic
            /\ handlerExit' = Ended("panic", response, WebContextMustPanic)
            /\ pc' = HandlerExitStage(wiring)
    /\ UNCHANGED <<header, wiring, concVars, userVars, keys, reqIDLocal, logs, response, recovered,
                   auditCalls, auditStore, auditResult, errCalls, sinkVars, persists>>

(***************************************************************************)
(* The exit steps, innermost first.                                        *)
(***************************************************************************)
\* ContextMiddleware with Persist called after context.Next() instead of
\* deferred: a panic skips it
ContextMiddlewareExitUndeferred ==
    /\ pc = "ctxExit"
    /\ keys' = Set(keys, webContextKey, "nil")
    /\ \E out \in DbOutcomes :
         LET p == LogsPersist(auditStore, logs, out)
         IN IF panicking # NoPanic
            THEN UNCHANGED <<auditCalls, auditStore, auditResult, panicking>>
            ELSE /\ auditCalls' = Append(auditCalls, logs)
                 /\ auditStore' = p.store
                 /\ auditResult' = out
                 /\ panicking' = IF p.panic THEN RawPanic("Logs.Persist panic")
                                 ELSE panicking
    /\ pc' = "recoverExit"
    /\ UNCHANGED <<header, wiring, concVars, userVars, reqIDLocal, ginErrors, logs, response, ops, handlerExit,
                   recovered, errCalls, sinkVars, persists>>

\* a context-injection stage that never gets to its deferred functions
ContextMiddlewareExitStuck ==
    /\ pc = "ctxExit"
    /\ UNCHANGED vars

\* ContextMiddleware's deferred functions, last registered first: the slot is
\* reset, then the buffer is handed to the Audit Persister.  The error that
\* Persist returns is dropped; a panic of Persist replaces the one in flight.
ContextMiddlewareExit ==
    /\ pc = "ctxExit"
    /\ keys' = Set(keys, webContextKey, "nil")
    /\ \E out \in DbOutcomes :
         LET p == LogsPersist(auditStore, logs, out)
         IN /\ auditCalls' = Append(auditCalls, logs)
            /\ auditStore' = p.store
            /\ auditResult' = out
            /\ panicking' = IF p.panic THEN RawPanic("Logs.Persist panic") ELSE panicking
    /\ pc' = "recoverExit"
    /\ UNCHANGED <<header, wiring, concVars, userVars, reqIDLocal, ginErrors, logs, response, ops, handlerExit,
                   recovered, errCalls, sinkVars, persists>>

\* a panicHandler that renders every recovered value as it is
panicHandlerRaw(r, err) == JSON(r, 500, err)

\* cmd/main.go's panicHandler: the Body of a ServerInternalError, else the
\* value
panicHandler(r, err) ==
    IF err.kind # "sie" THEN JSON(r, 500, err) ELSE JSON(r, 500, Obj(err.v))

\* the body the layered main's panicHandler renders
InternalErrorBody == Obj("internal_server_error: An internal error occurred")
\* the layered main's panicHandler: one body for every value
panicHandlerClean(r, err) == JSON(r, 500, InternalErrorBody)

\* the panicHandler that main handed to Recover
PanicHandlerOf(w, r, err) ==
    IF w.main = "cmd" THEN panicHandler(r, err) ELSE panicHandlerClean(r, err)

\* Recover without the call of recover(): the panic keeps unwinding
RecoverExitNoRecover ==
    /\ pc = "recoverExit"
    /\ pc' = "errExit"
    /\ UNCHANGED <<header, wiring, concVars, userVars, keys, reqIDLocal, ginErrors, logs, ops, handlerExit,
                   auditCalls, auditStore, auditResult, errCalls, sinkVars, persists,
                   response, panicking, recovered>>

\* Recover's deferred function
RecoverExit ==
    /\ pc = "recoverExit"
    /\ IF panicking # NoPanic
       THEN /\ response' = PanicHandlerOf(wiring, response, panicking)
            /\ panicking' = NoPanic
            /\ recovered' = Append(recovered, "Recover")
       ELSE UNCHANGED <<response, panicking, recovered>>
    /\ pc' = "errExit"
    /\ UNCHANGED <<header, wiring, concVars, userVars, keys, reqIDLocal, ginErrors, logs, ops, handlerExit,
                   auditCalls, auditStore, auditResult, errCalls, sinkVars, persists>>

\* gin's errorMsgs.String(): one line per error
RECURSIVE ErrorsString(_, _)
ErrorsString(errs, i) ==
    IF i > Len(errs) THEN ""
    ELSE "Error #0" \o <<"1", "2", "3", "4", "5", "6", "7", "8", "9">>[i] \o ": "
         \o errs[i] \o "\n" \o ErrorsString(errs, i + 1)

\* a report whose path is taken from the full URL
ReportPathFromURL(errs, requestID) ==
    [Stack |-> ErrorsString(errs, 1), Method |-> Request.Method,
     URL |-> Request.URL, Path |-> Request.URL, IP |-> Request.IP,
     RequestID |-> requestID]

\* the report ErrorPersisterMiddleware builds
Report(errs, requestID) ==
    [Stack |-> ErrorsString(errs, 1), Method |-> Request.Method,
     URL |-> Request.URL, Path |-> Request.Path, IP |-> Request.IP,
     RequestID |-> requestID]

\* an error-persistence stage that reports only when the audit write went well
ShouldPersistWhenAudited(errs) == Len(errs) # 0 /\ auditResult = "commit"

\* the error-persistence stage without its check for recorded errors
ShouldPersistAlways(errs) == TRUE

\* ErrorPersisterMiddleware persists only when errors were recorded
ShouldPersist(errs) == Len(errs) # 0

\* the record the guard of ErrorPersisterMiddleware writes
GuardRecord(err, errs) ==
    Emit("ErrorPersisterMiddleware", "ERROR", "ErrorPersister panicked",
         <<"error", err, "stackErrors", errs>>)

\* a guard that lets the panic go on
AfterGuardRethrown(v) == v

\* what is left of a panic once the deferred guard has called recover()
AfterGuard(v) == NoPanic

\* ErrorPersisterMiddleware after context.Next(), and its deferred guard
ErrorPersisterExit ==
    /\ pc = "errExit"
    /\ IF panicking # NoPanic
       THEN \* a panic that passed Recover: the guard logs it, nothing is persisted
            /\ baseLog' = Append(baseLog, GuardRecord(panicking, ginErrors))
            /\ panicking' = AfterGuard(panicking)
            /\ recovered' = Append(recovered, "ErrorPersisterMiddleware")
            /\ UNCHANGED <<errCalls, errStore, dirExists, files>>
       ELSE IF ~ShouldPersist(ginErrors)
       THEN UNCHANGED <<baseLog, panicking, recovered, errCalls, errStore,
                        dirExists, files>>
       ELSE \E dbOut \in DbOutcomes, fsOut \in FsOutcomesFor(dirExists), now \in Times :
              LET rec == Report(ginErrors, reqIDLocal)
                  p == ErrorsPersist(errStore, dirExists, files, baseLog, rec,
                                     dbOut, fsOut, now)
              IN /\ (dbOut # "error" => fsOut = "ok")
                 /\ errCalls' = Append(errCalls, rec)
                 /\ errStore' = p.store
                 /\ dirExists' = p.dir
                 /\ files' = p.files
                 /\ baseLog' = IF p.panic
                               THEN Append(p.log, GuardRecord(RawPanic("Errors.Persist panic"),
                                                              ginErrors))
                               ELSE p.log
                 /\ recovered' = IF p.panic
                                 THEN Append(recovered, "ErrorPersisterMiddleware")
                                 ELSE recovered
                 /\ panicking' = IF p.panic
                                 THEN AfterGuard(RawPanic("Errors.Persist panic"))
                                 ELSE panicking
    /\ pc' = "done"
    /\ UNCHANGED <<header, wiring, concVars, userVars, keys, reqIDLocal, ginErrors, logs, response, ops,
                   handlerExit, auditCalls, auditStore, auditResult, persists>>

Next ==
    \/ RequestIDMiddleware
    \/ ErrorPersisterEnter
    \/ RecoverEnter
    \/ ContextMiddlewareEnter
    \/ HandlerLog
    \/ HandlerError
    \/ HandlerJSON
    \/ HandlerReturn
    \/ HandlerPanic
    \/ WebContextMust
    \/ ContextMiddlewareExit
    \/ RecoverExit
    \/ ErrorPersisterExit

Spec == Init /\ [][Next]_vars

\* one request whose goroutine keeps running: a stage that can take its
\* next step takes it. The request carries no X-Request-ID header; the header
\* decides the request's ID and no stage's control flow.
InitFair == Init /\ ~header.present
FairSpec == InitFair /\ [][Next]_vars /\ WF_vars(Next)

(***************************************************************************)
(* A route registered without ContextMiddleware (a mistake of the setup):  *)
(* the chain is RequestIDMiddleware, ErrorPersisterMiddleware, Recover,    *)
(* handler, and the handler finds no Request Context.                      *)
(***************************************************************************)
InitNoContext ==
    /\ pc = "idStage"
    /\ header \in Headers
    /\ wiring \in {[main |-> m, context |-> FALSE] : m \in Mains}
    /\ keys = [k \in KeyNames |-> NoValue]
    /\ reqIDLocal = ""
    /\ ginErrors = <<>>
    /\ logs = <<>>
    /\ panicking = NoPanic
    /\ response = NoResponse
    /\ ops = 0
    /\ handlerExit = Ended("none", NoResponse, NoPanic)
    /\ recovered = <<>>
    /\ baseLog = <<>>
    /\ auditCalls = <<>>
    /\ auditStore = <<>>
    /\ auditResult = "none"
    /\ errCalls = <<>>
    /\ errStore = <<>>
    /\ dirExists = FALSE
    /\ files = [q \in {} |-> <<>>]
    /\ persists = <<>>
    /\ NoRequests
    /\ NoUserCalls

NextNoContext ==
    \/ RequestIDMiddleware
    \/ ErrorPersisterEnter
    \/ RecoverEnter
    \/ HandlerError
    \/ HandlerJSON
    \/ HandlerReturn
    \/ HandlerPanic
    \/ WebContextMust
    \/ RecoverExit
    \/ ErrorPersisterExit

SpecNoContext == InitNoContext /\ [][NextNoContext]_vars

(***************************************************************************)
(* The Error Persister on its own: a sequence of Errors.Persist calls on   *)
(* reports of several requests, each call with any outcome of the store    *)
(* and of the file system.                                                 *)
(***************************************************************************)
\* the reports handed to Errors.Persist
Reports == {Report(<<e>>, id) : e \in ErrMsgs, id \in {"req-7", "uuid-1"}}

InitPersist ==
    /\ pc = "persister"
    /\ header = [present |-> FALSE, value |-> ""]
    /\ wiring = [main |-> "cmd", context |-> TRUE]
    /\ keys = [k \in KeyNames |-> NoValue]
    /\ reqIDLocal = ""
    /\ ginErrors = <<>>
    /\ logs = <<>>
    /\ panicking = NoPanic
    /\ response = NoResponse
    /\ ops = 0
    /\ handlerExit = Ended("none", NoResponse, NoPanic)
    /\ recovered = <<>>
    /\ baseLog = <<>>
    /\ auditCalls = <<>>
    /\ auditStore = <<>>
    /\ auditResult = "none"
    /\ errCalls = <<>>
    /\ errStore = <<>>
    /\ dirExists \in BOOLEAN
    /\ files = [q \in {} |-> <<>>]
    /\ persists = <<>>
    /\ NoRequests
    /\ NoUserCalls

\* one call Errors.Persist(rec); persists keeps the call and how it went
Persist ==
    /\ pc = "persister"
    /\ Len(persists) < MaxPersists
    /\ \E rec \in Reports, dbOut \in DbOutcomes, fsOut \in FsOutcomesFor(dirExists),
          now \in Times :
         LET p == ErrorsPersist(errStore, dirExists, files, baseLog, rec, dbOut,
                                fsOut, now)
         IN /\ (dbOut # "error" => fsOut = "ok")
            /\ errStore' = p.store
            /\ dirExists' = p.dir
            /\ files' = p.files
            /\ baseLog' = p.log
            /\ persists' = Append(persists, [rec |-> rec, db |-> dbOut, fs |-> fsOut,
                                             now |-> now, panic |-> p.panic])
    /\ UNCHANGED <<pipeVars, concVars, userVars>>

NextPersist == Persist

SpecPersist == InitPersist /\ [][NextPersist]_vars

(***************************************************************************)
(* Requests in flight concurrently.  gin runs each request on a goroutine  *)
(* of its own; the steps of ContextMiddleware and of the handlers of the   *)
(* requests interleave.  The base logger and the logs store are shared.    *)
(***************************************************************************)
\* the logging calls the concurrent handlers make
ConcurrentLogCalls ==
    {<<<<"INFO", "plain">>, "a", <<>>>>, <<<<"WARN", "w">>, "b", <<>>>>,
     <<<<"PANIC", "plain">>, "a", <<>>>>}

\* what the concurrent steps leave alone
concFrame == <<pc, header, wiring, keys, reqIDLocal, ginErrors, logs, panicking,
               response, ops, handlerExit, recovered, auditCalls, auditResult,
               errCalls, errStore, dirExists, files, persists, userVars>>

InitConcurrent ==
    /\ pc = "concurrent"
    /\ header = [present |-> FALSE, value |-> ""]
    /\ wiring = [main |-> "cmd", context |-> TRUE]
    /\ keys = [k \in KeyNames |-> NoValue]
    /\ reqIDLocal = ""
    /\ ginErrors = <<>>
    /\ logs = <<>>
    /\ panicking = NoPanic
    /\ response = NoResponse
    /\ ops = 0
    /\ handlerExit = Ended("none", NoResponse, NoPanic)
    /\ recovered = <<>>
    /\ baseLog = <<>>
    /\ auditCalls = <<>>
    /\ auditStore = <<>>
    /\ auditResult = "none"
    /\ errCalls = <<>>
    /\ errStore = <<>>
    /\ dirExists = FALSE
    /\ files = [q \in {} |-> <<>>]
    /\ persists = <<>>
    /\ inflight = [r \in Requests |-> "ctxStage"]
    /\ ctxSlot = [r \in Requests |-> "unset"]
    /\ webLoggers = [r \in Requests |-> <<>>]
    /\ collected = [r \in Requests |-> <<>>]
    /\ handed = <<>>
    /\ NoUserCalls

\* ContextMiddleware of request r before context.Next(): a webLog of the
\* request's own, with an empty logs slice
ConcurrentContextEnter(r) ==
    /\ inflight[r] = "ctxStage"
    /\ webLoggers' = [webLoggers EXCEPT ![r] = <<>>]
    /\ ctxSlot' = [ctxSlot EXCEPT ![r] = "webCtx"]
    /\ inflight' = [inflight EXCEPT ![r] = "handler"]
    /\ UNCHANGED <<collected, handed, baseLog, auditStore, concFrame>>

\* a collector that appends to one buffer shared by the requests
ConcurrentLogShared(r) ==
    /\ inflight[r] = "handler"
    /\ Len(collected[r]) < MaxConcLogs
    /\ \E c \in ConcurrentLogCalls :
         LET m == c[1]
             out == InnerOutcome(m[1])
         IN /\ baseLog' = Append(baseLog, Forward(m, c[2], c[3]))
            /\ collected' = [collected EXCEPT ![r] = Append(@, c)]
            /\ webLoggers' =
                 IF out = "return"
                 THEN [webLoggers EXCEPT
                         ![1] = appendToLogs(@, webLogTag(m), webLogArgs(m, c[2], c[3]))]
                 ELSE webLoggers
            /\ inflight' = IF out = "panic" THEN [inflight EXCEPT ![r] = "ctxExit"]
                           ELSE inflight
    /\ UNCHANGED <<ctxSlot, handed, auditStore, concFrame>>

\* the handler of request r calls a method of the collector it got from its
\* Request Context
ConcurrentLog(r) ==
    /\ inflight[r] = "handler"
    /\ Len(collected[r]) < MaxConcLogs
    /\ \E c \in ConcurrentLogCalls :
         LET m == c[1]
             out == InnerOutcome(m[1])
         IN /\ baseLog' = Append(baseLog, Forward(m, c[2], c[3]))
            /\ collected' = [collected EXCEPT ![r] = Append(@, c)]
            /\ webLoggers' =
                 IF out = "return"
                 THEN [webLoggers EXCEPT
                         ![r] = appendToLogs(@, webLogTag(m), webLogArgs(m, c[2], c[3]))]
                 ELSE webLoggers
            /\ inflight' = IF out = "panic" THEN [inflight EXCEPT ![r] = "ctxExit"]
                           ELSE inflight
    /\ UNCHANGED <<ctxSlot, handed, auditStore, concFrame>>

\* the handler of request r returns
ConcurrentReturn(r) ==
    /\ inflight[r] = "handler"
    /\ inflight' = [inflight EXCEPT ![r] = "ctxExit"]
    /\ UNCHANGED <<ctxSlot, webLoggers, collected, handed, baseLog, auditStore,
                   concFrame>>

\* ContextMiddleware's deferred functions for request r
ConcurrentContextExit(r) ==
    /\ inflight[r] = "ctxExit"
    /\ ctxSlot' = [ctxSlot EXCEPT ![r] = "nil"]
    /\ \E out \in DbOutcomes :
         /\ handed' = Append(handed, [req |-> r, buffer |-> webLoggers[r], out |-> out])
         /\ auditStore' = LogsPersist(auditStore, webLoggers[r], out).store
    /\ inflight' = [inflight EXCEPT ![r] = "left"]
    /\ UNCHANGED <<webLoggers, collected, baseLog, concFrame>>

NextConcurrent ==
    \E r \in Requests :
      \/ ConcurrentContextEnter(r)
      \/ ConcurrentLog(r)
      \/ ConcurrentReturn(r)
      \/ ConcurrentContextExit(r)

SpecConcurrent == InitConcurrent /\ [][NextConcurrent]_vars

(***************************************************************************)
(* The user entity, the users table behind UserRepositoryImpl and the      *)
(* UserService.                                                            *)
(***************************************************************************)
\* uuid.Nil, and the absent *entity.User
NilID == 0
NilUser == [ID |-> NilID, Email |-> "", Username |-> "", Name |-> "",
            CreatedAt |-> 0, UpdatedAt |-> 0]

\* a NewUser that leaves the ID unset
NewUserNilID(email, username, name, id, now) ==
    [ID |-> NilID, Email |-> email, Username |-> username, Name |-> name,
     CreatedAt |-> now, UpdatedAt |-> now]

\* entity.NewUser; id is what uuid.New() returns and now what time.Now() does
NewUser(email, username, name, id, now) ==
    [ID |-> id, Email |-> email, Username |-> username, Name |-> name,
     CreatedAt |-> now, UpdatedAt |-> now]

\* an UpdateProfile that leaves UpdatedAt as it was
UpdateProfileKeepsTime(u, name, now) == [u EXCEPT !.Name = name]

\* User.UpdateProfile
UpdateProfile(u, name, now) == [u EXCEPT !.Name = name, !.UpdatedAt = now]

\* User.IsValid
IsValid(u) == u.ID # NilID /\ u.Email # "" /\ u.Username # "" /\ u.Name # ""

\* how a call of the repository may end at the database: the transaction
\* works on the table, or returns an error
RepoOutcomes == {"ok", "error"}
DbError == "db error"

\* the row a query with First() finds, or NilUser (gorm.ErrRecordNotFound)
First(rows) == IF rows = {} THEN NilUser ELSE CHOOSE u \in rows : TRUE

\* a GetByUsername that never finds a row
GetByUsernameBlind(tbl, username, out) == [user |-> NilUser, err |-> ""]

\* UserRepositoryImpl.GetByEmail, GetByUsername, GetByID: the row, nil when
\* there is none, or the error of the transaction
GetByEmail(tbl, email, out) ==
    IF out = "error" THEN [user |-> NilUser, err |-> DbError]
    ELSE [user |-> First({u \in tbl : u.Email = email}), err |-> ""]
GetByUsername(tbl, username, out) ==
    IF out = "error" THEN [user |-> NilUser, err |-> DbError]
    ELSE [user |-> First({u \in tbl : u.Username = username}), err |-> ""]
GetByID(tbl, id, out) ==
    IF out = "error" THEN [user |-> NilUser, err |-> DbError]
    ELSE [user |-> First({u \in tbl : u.ID = id}), err |-> ""]

\* the unique indexes of UserModel: primary key, email, username
Conflicts(tbl, user) ==
    \E u \in tbl : u.ID = user.ID \/ u.Email = user.Email \/ u.Username = user.Username

\* UserRepositoryImpl.Create: one INSERT in a transaction
Create(tbl, user, out) ==
    IF out = "error" \/ Conflicts(tbl, user)
    THEN [users |-> tbl, err |-> DbError]
    ELSE [users |-> tbl \cup {user}, err |-> ""]

\* UserRepositoryImpl.Update: Updates(model) on the row of the user's ID;
\* gorm sets the autoUpdateTime column to the time of the call
Update(tbl, user, out, now) ==
    IF out = "error" THEN [users |-> tbl, err |-> DbError]
    ELSE [users |-> {IF u.ID = user.ID THEN [user EXCEPT !.UpdatedAt = now] ELSE u :
                      u \in tbl},
          err |-> ""]

\* UserRepositoryImpl.Delete: one DELETE of the rows with the ID
Delete(tbl, id, out) ==
    IF out = "error" THEN [users |-> tbl, err |-> DbError]
    ELSE [users |-> {u \in tbl : u.ID # id}, err |-> ""]

\* UserRepositoryImpl.Count: the number of rows, as an int64
Count(tbl, out) ==
    IF out = "error" THEN [count |-> 0, err |-> DbError]
    ELSE [count |-> Cardinality(tbl), err |-> ""]

\* the rows in the order of ORDER BY created_at DESC
RECURSIVE NewestFirst(_)
NewestFirst(rows) ==
    IF rows = {} THEN <<>>
    ELSE LET u == CHOOSE x \in rows : \A y \in rows : y.CreatedAt <= x.CreatedAt
         IN <<u>> \o NewestFirst(rows \ {u})

\* OFFSET and LIMIT as gorm builds them: an offset is written when it is
\* positive, a limit when it is not negative
Page(rows, offset, limit) ==
    LET from == IF offset > 0 THEN offset ELSE 0
        rest == IF from >= Len(rows) THEN <<>> ELSE SubSeq(rows, from + 1, Len(rows))
    IN IF limit >= 0 /\ limit < Len(rest) THEN SubSeq(rest, 1, limit) ELSE rest

\* UserRepositoryImpl.List
List(tbl, offset, limit, out) ==
    IF out = "error" THEN [users |-> <<>>, err |-> DbError]
    ELSE [users |-> Page(NewestFirst(tbl), offset, limit), err |-> ""]

\* Go's int: two's complement arithmetic that wraps at the width of the
\* type. The width is 64 bits in the build; the model keeps the wrap at
\* IntBits bits, a width whose values the model checker can hold.
MaxInt == 2^(IntBits - 1) - 1
WrapInt(n) == ((n + 2^(IntBits - 1)) % 2^IntBits) - 2^(IntBits - 1)

ErrUserNotFound == "user not found"
ErrUserAlreadyExists == "user already exists"
ErrInvalidUserData == "invalid user data"

\* one call of the repository as the service made it
RepoCall(method, arg) == [method |-> method, arg |-> arg]

\* what a call of the service returns and leaves behind: the table, the
\* returned user and error, the repository calls it made, the records it
\* logged, and how many IDs and clock readings it used
Outcome(tbl, user, err, repo, log, ids, reads) ==
    [users |-> tbl, user |-> user, err |-> err, repo |-> repo, log |-> log,
     ids |-> ids, reads |-> reads]

\* UserService.CreateUser; outs are the outcomes of GetByEmail, GetByUsername
\* and Create at the database
CreateUserRun(tbl, req, outs, id, now) ==
    LET l0 == <<Emit("UserService", "INFO", "CreateUser",
                     <<"email", req.Email, "username", req.Username>>)>>
        byEmail == GetByEmail(tbl, req.Email, outs[1])
        r1 == <<RepoCall("GetByEmail", req.Email)>>
        byName == GetByUsername(tbl, req.Username, outs[2])
        r2 == Append(r1, RepoCall("GetByUsername", req.Username))
        user == NewUser(req.Email, req.Username, req.Name, id, now)
        created == Create(tbl, user, outs[3])
        r3 == Append(r2, RepoCall("Create", user))
    IN IF byEmail.err = "" /\ byEmail.user # NilUser
       THEN Outcome(tbl, NilUser, ErrUserAlreadyExists, r1,
                    Append(l0, Emit("UserService", "WARN",
                                    "User creation failed - email already exists",
                                    <<"email", req.Email>>)), 0, 0)
       ELSE IF byName.err = "" /\ byName.user # NilUser
       THEN Outcome(tbl, NilUser, ErrUserAlreadyExists, r2,
                    Append(l0, Emit("UserService", "WARN",
                                    "User creation failed - username already exists",
                                    <<"username", req.Username>>)), 0, 0)
       ELSE IF ~IsValid(user)
       THEN Outcome(tbl, NilUser, ErrInvalidUserData, r2,
                    Append(l0, Emit("UserService", "ERROR",
                                    "User creation failed - invalid data",
                                    <<"user", user>>)), 1, 1)
       ELSE IF created.err # ""
       THEN Outcome(tbl, NilUser, "failed to create user: " \o created.err, r3,
                    Append(l0, Emit("UserService", "ERROR", "Failed to create user",
                                    <<"error", created.err, "user", user>>)), 1, 1)
       ELSE Outcome(created.users, user, "", r3,
                    Append(l0, Emit("UserService", "INFO", "User created successfully",
                                    <<"userID", user.ID, "email", user.Email>>)), 1, 1)

\* UserService.UpdateUserProfile; outs are the outcomes of GetByID and
\* Update, now and later the readings of the clock in UpdateProfile and in
\* the UPDATE statement
UpdateUserProfileRun(tbl, req, outs, now, later) ==
    LET l0 == <<Emit("UserService", "INFO", "UpdateUserProfile",
                     <<"userID", req.ID, "name", req.Name>>)>>
        found == GetByID(tbl, req.ID, outs[1])
        r1 == <<RepoCall("GetByID", req.ID)>>
        user == UpdateProfile(found.user, req.Name, now)
        updated == Update(tbl, user, outs[2], later)
        r2 == Append(r1, RepoCall("Update", user))
    IN IF found.err # ""
       THEN Outcome(tbl, NilUser, ErrUserNotFound, r1,
                    Append(l0, Emit("UserService", "ERROR", "Failed to get user for update",
                                    <<"error", found.err, "userID", req.ID>>)), 0, 0)
       ELSE IF found.user = NilUser
       THEN Outcome(tbl, NilUser, ErrUserNotFound, r1,
                    Append(l0, Emit("UserService", "WARN", "User not found for update",
                                    <<"userID", req.ID>>)), 0, 0)
       ELSE IF ~IsValid(user)
       THEN Outcome(tbl, NilUser, ErrInvalidUserData, r1,
                    Append(l0, Emit("UserService", "ERROR",
                                    "User update failed - invalid data",
                                    <<"user", user>>)), 0, 1)
       ELSE IF updated.err # ""
       THEN Outcome(tbl, NilUser, "failed to update user: " \o updated.err, r2,
                    Append(l0, Emit("UserService", "ERROR", "Failed to update user",
                                    <<"error", updated.err, "userID", req.ID>>)), 0, 1)
       ELSE Outcome(updated.users, user, "", r2,
                    Append(l0, Emit("UserService", "INFO",
                                    "User profile updated successfully",
                                    <<"userID", user.ID>>)), 0, 2)

\* a GetUserByID that hands out a blank user
GetUserByIDRunBlank(tbl, id, out) ==
    Outcome(tbl, NilUser, "", <<RepoCall("GetByID", id)>>, <<>>, 0, 0)

\* UserService.GetUserByID; out is the outcome of GetByID at the database
GetUserByIDRun(tbl, id, out) ==
    LET l0 == <<Emit("UserService", "INFO", "GetUserByID", <<"userID", id>>)>>
        found == GetByID(tbl, id, out)
        r1 == <<RepoCall("GetByID", id)>>
    IN IF found.err # ""
       THEN Outcome(tbl, NilUser, ErrUserNotFound, r1,
                    Append(l0, Emit("UserService", "ERROR", "Failed to get user by ID",
                                    <<"error", found.err, "userID", id>>)), 0, 0)
       ELSE IF found.user = NilUser
       THEN Outcome(tbl, NilUser, ErrUserNotFound, r1,
                    Append(l0, Emit("UserService", "WARN", "User not found",
                                    <<"userID", id>>)), 0, 0)
       ELSE Outcome(tbl, found.user, "", r1, l0, 0, 0)

\* a DeleteUser that deletes before it looks the user up
DeleteUserRunUnchecked(tbl, id, outs) ==
    LET deleted == Delete(tbl, id, outs[2])
    IN Outcome(deleted.users, NilUser,
               IF GetByID(tbl, id, outs[1]).user = NilUser THEN ErrUserNotFound ELSE "",
               <<RepoCall("Delete", id), RepoCall("GetByID", id)>>, <<>>, 0, 0)

\* UserService.DeleteUser; outs are the outcomes of GetByID and Delete
DeleteUserRun(tbl, id, outs) ==
    LET l0 == <<Emit("UserService", "INFO", "DeleteUser", <<"userID", id>>)>>
        found == GetByID(tbl, id, outs[1])
        r1 == <<RepoCall("GetByID", id)>>
        deleted == Delete(tbl, id, outs[2])
        r2 == Append(r1, RepoCall("Delete", id))
    IN IF found.err # "" \/ found.user = NilUser
       THEN Outcome(tbl, NilUser, ErrUserNotFound, r1,
                    Append(l0, Emit("UserService", "WARN", "User not found for deletion",
                                    <<"userID", id>>)), 0, 0)
       ELSE IF deleted.err # ""
       THEN Outcome(tbl, NilUser, "failed to delete user: " \o deleted.err, r2,
                    Append(l0, Emit("UserService", "ERROR", "Failed to delete user",
                                    <<"error", deleted.err, "userID", id>>)), 0, 0)
       ELSE Outcome(deleted.users, NilUser, "", r2,
                    Append(l0, Emit("UserService", "INFO", "User deleted successfully",
                                    <<"userID", id>>)), 0, 0)

\* ListUsersResponse, and the nil response
ListUsersResponse(list, total, offset, limit, hasMore) ==
    [Users |-> list, Total |-> total, Offset |-> offset, Limit |-> limit,
     HasMore |-> hasMore]
NilListUsersResponse == ListUsersResponse(<<>>, 0, 0, 0, FALSE)

\* a limit passed on as it was asked
EffectiveLimitAsAsked(limit) == limit

\* the limit ListUsers works with: req.Limit after the two adjustments
EffectiveLimit(limit) ==
    LET l1 == IF limit <= 0 THEN 10 ELSE limit
    IN IF l1 > 100 THEN 100 ELSE l1

\* hasMore := int64(req.Offset+req.Limit) < total
HasMore(offset, limit, total) == WrapInt(offset + limit) < total

\* UserService.ListUsers; outs are the outcomes of Count and List. The
\* result is the outcome and the response.
ListUsersRun(tbl, req, outs) ==
    LET l0 == <<Emit("UserService", "INFO", "ListUsers",
                     <<"offset", req.Offset, "limit", req.Limit>>)>>
        limit == EffectiveLimit(req.Limit)
        counted == Count(tbl, outs[1])
        r1 == <<RepoCall("Count", <<>>)>>
        listed == List(tbl, req.Offset, limit, outs[2])
        r2 == Append(r1, RepoCall("List", <<req.Offset, limit>>))
        hasMore == HasMore(req.Offset, limit, counted.count)
    IN IF counted.err # ""
       THEN [out |-> Outcome(tbl, NilUser, "failed to get user count: " \o counted.err, r1,
                             Append(l0, Emit("UserService", "ERROR",
                                             "Failed to get user count",
                                             <<"error", counted.err>>)), 0, 0),
             resp |-> NilListUsersResponse]
       ELSE IF listed.err # ""
       THEN [out |-> Outcome(tbl, NilUser, "failed to list users: " \o listed.err, r2,
                             Append(l0, Emit("UserService", "ERROR", "Failed to list users",
                                             <<"error", listed.err, "offset", req.Offset,
                                               "limit", limit>>)), 0, 0),
             resp |-> NilListUsersResponse]
       ELSE [out |-> Outcome(tbl, NilUser, "", r2,
                             Append(l0, Emit("UserService", "INFO",
                                             "Users listed successfully",
                                             <<"total", counted.count,
                                               "returned", Len(listed.users)>>)), 0, 0),
             resp |-> ListUsersResponse(listed.users, counted.count, req.Offset, limit,
                                        hasMore)]

\* the requests handed to the service
Emails == {"", "a@x.io", "b@x.io"}
Usernames == {"", "ann", "bob"}
Names == {"", "Ann"}
NewNames == {"", "Zed"}
CreateRequests == [Email : Emails, Username : Usernames, Name : Names]
UserIDs == 1..MaxUserCalls
UpdateRequests == [ID : UserIDs, Name : NewNames]
Offsets == {-1, 0, 1, MaxInt}
Limits == {-1, 0, 1, 2, 100, 101}
ListUsersRequests == [Offset : Offsets, Limit : Limits]

InitUser ==
    /\ pc = "service"
    /\ header = [present |-> FALSE, value |-> ""]
    /\ wiring = [main |-> "clean", context |-> TRUE]
    /\ keys = [k \in KeyNames |-> NoValue]
    /\ reqIDLocal = ""
    /\ ginErrors = <<>>
    /\ logs = <<>>
    /\ panicking = NoPanic
    /\ response = NoResponse
    /\ ops = 0
    /\ handlerExit = Ended("none", NoResponse, NoPanic)
    /\ recovered = <<>>
    /\ baseLog = <<>>
    /\ auditCalls = <<>>
    /\ auditStore = <<>>
    /\ auditResult = "none"
    /\ errCalls = <<>>
    /\ errStore = <<>>
    /\ dirExists = FALSE
    /\ files = [q \in {} |-> <<>>]
    /\ persists = <<>>
    /\ NoRequests
    /\ NoUserCalls

\* one call service.CreateUser(ctx, req)
CreateUser ==
    /\ pc = "service"
    /\ calls < MaxUserCalls
    /\ \E req \in CreateRequests, outs \in [1..3 -> RepoOutcomes] :
         LET r == CreateUserRun(users, req, outs, uuids + 1, clock + 1)
         IN /\ users' = r.users
            /\ uuids' = uuids + r.ids
            /\ clock' = clock + r.reads
            /\ svcLog' = r.log
            /\ call' = [op |-> "CreateUser", req |-> req, outs |-> outs,
                        user |-> r.user, err |-> r.err, repo |-> r.repo]
    /\ calls' = calls + 1
    /\ UNCHANGED <<pipeVars, sinkVars, persists, concVars, creating>>

\* one call service.UpdateUserProfile(ctx, req)
UpdateUserProfile ==
    /\ pc = "service"
    /\ calls < MaxUserCalls
    /\ \E req \in UpdateRequests, outs \in [1..2 -> RepoOutcomes] :
         LET r == UpdateUserProfileRun(users, req, outs, clock + 1, clock + 2)
         IN /\ users' = r.users
            /\ uuids' = uuids + r.ids
            /\ clock' = clock + r.reads
            /\ svcLog' = r.log
            /\ call' = [op |-> "UpdateUserProfile", req |-> req, outs |-> outs,
                        user |-> r.user, err |-> r.err, repo |-> r.repo]
    /\ calls' = calls + 1
    /\ UNCHANGED <<pipeVars, sinkVars, persists, concVars, creating>>

\* one call service.GetUserByID(ctx, id)
GetUserByID ==
    /\ pc = "service"
    /\ calls < MaxUserCalls
    /\ \E id \in UserIDs, out \in RepoOutcomes :
         LET r == GetUserByIDRun(users, id, out)
         IN /\ svcLog' = r.log
            /\ call' = [op |-> "GetUserByID", req |-> id, outs |-> <<out>>,
                        user |-> r.user, err |-> r.err, repo |-> r.repo]
    /\ calls' = calls + 1
    /\ UNCHANGED <<pipeVars, sinkVars, persists, concVars, users, uuids, clock, creating>>

\* one call service.DeleteUser(ctx, id)
DeleteUser ==
    /\ pc = "service"
    /\ calls < MaxUserCalls
    /\ \E id \in UserIDs, outs \in [1..2 -> RepoOutcomes] :
         LET r == DeleteUserRun(users, id, outs)
         IN /\ users' = r.users
            /\ svcLog' = r.log
            /\ call' = [op |-> "DeleteUser", req |-> id, outs |-> outs,
                        user |-> r.user, err |-> r.err, repo |-> r.repo]
    /\ calls' = calls + 1
    /\ UNCHANGED <<pipeVars, sinkVars, persists, concVars, uuids, clock, creating>>

\* one call service.ListUsers(ctx, req)
ListUsers ==
    /\ pc = "service"
    /\ calls < MaxUserCalls
    /\ \E req \in ListUsersRequests, outs \in [1..2 -> RepoOutcomes] :
         LET r == ListUsersRun(users, req, outs)
         IN /\ svcLog' = r.out.log
            /\ call' = [op |-> "ListUsers", req |-> req, outs |-> outs,
                        user |-> r.out.user, err |-> r.out.err, repo |-> r.out.repo,
                        resp |-> r.resp]
    /\ calls' = calls + 1
    /\ UNCHANGED <<pipeVars, sinkVars, persists, concVars, users, uuids, clock, creating>>

NextUser ==
    \/ CreateUser
    \/ UpdateUserProfile
    \/ GetUserByID
    \/ DeleteUser
    \/ ListUsers

SpecUser == InitUser /\ [][NextUser]_vars

(***************************************************************************)
(* CreateUser calls that run at once on one UserService: every repository  *)
(* call is one transaction, and the calls of different callers interleave. *)
(***************************************************************************)
Callers == {1, 2}
RaceRequests == [Email : Emails \ {""}, Username : Usernames \ {""}, Name : Names \ {""}]

\* a call of CreateUser that has logged nothing and called nothing yet
Calling(req) == [pc |-> "byEmail", req |-> req, outs |-> <<>>, user |-> NilUser, err |-> ""]
\* the call after it has returned user and err
Returned(c, out, user, err) ==
    [c EXCEPT !.pc = "returned", !.outs = Append(@, out), !.user = user, !.err = err]

InitCreateRace ==
    /\ pc = "race"
    /\ header = [present |-> FALSE, value |-> ""]
    /\ wiring = [main |-> "clean", context |-> TRUE]
    /\ keys = [k \in KeyNames |-> NoValue]
    /\ reqIDLocal = ""
    /\ ginErrors = <<>>
    /\ logs = <<>>
    /\ panicking = NoPanic
    /\ response = NoResponse
    /\ ops = 0
    /\ handlerExit = Ended("none", NoResponse, NoPanic)
    /\ recovered = <<>>
    /\ baseLog = <<>>
    /\ auditCalls = <<>>
    /\ auditStore = <<>>
    /\ auditResult = "none"
    /\ errCalls = <<>>
    /\ errStore = <<>>
    /\ dirExists = FALSE
    /\ files = [q \in {} |-> <<>>]
    /\ persists = <<>>
    /\ NoRequests
    /\ users = {}
    /\ clock = 0
    /\ uuids = 0
    /\ calls = 0
    /\ call = NoCall
    /\ svcLog = <<>>
    /\ creating \in [Callers -> {Calling(req) : req \in RaceRequests}]

\* caller c up to the return after GetByEmail
CreateUserGetByEmail(c) ==
    /\ pc = "race"
    /\ creating[c].pc = "byEmail"
    /\ \E out \in RepoOutcomes :
         LET req == creating[c].req
             l0 == Emit("UserService", "INFO", "CreateUser",
                        <<"email", req.Email, "username", req.Username>>)
             byEmail == GetByEmail(users, req.Email, out)
         IN IF byEmail.err = "" /\ byEmail.user # NilUser
            THEN /\ svcLog' = svcLog \o
                      <<l0, Emit("UserService", "WARN",
                                 "User creation failed - email already exists",
                                 <<"email", req.Email>>)>>
                 /\ creating' = [creating EXCEPT
                                   ![c] = Returned(@, out, NilUser, ErrUserAlreadyExists)]
            ELSE /\ svcLog' = Append(svcLog, l0)
                 /\ creating' = [creating EXCEPT ![c].pc = "byUsername",
                                                 ![c].outs = Append(@, out)]
    /\ UNCHANGED <<pipeVars, sinkVars, persists, concVars, users, clock, uuids, calls, call>>

\* caller c from there up to the return after GetByUsername
CreateUserGetByUsername(c) ==
    /\ pc = "race"
    /\ creating[c].pc = "byUsername"
    /\ \E out \in RepoOutcomes :
         LET req == creating[c].req
             byName == GetByUsername(users, req.Username, out)
         IN IF byName.err = "" /\ byName.user # NilUser
            THEN /\ svcLog' = Append(svcLog,
                                     Emit("UserService", "WARN",
                                          "User creation failed - username already exists",
                                          <<"username", req.Username>>))
                 /\ creating' = [creating EXCEPT
                                   ![c] = Returned(@, out, NilUser, ErrUserAlreadyExists)]
            ELSE /\ svcLog' = svcLog
                 /\ creating' = [creating EXCEPT ![c].pc = "create",
                                                 ![c].outs = Append(@, out)]
    /\ UNCHANGED <<pipeVars, sinkVars, persists, concVars, users, clock, uuids, calls, call>>

\* caller c from there to the end: NewUser, IsValid, Create
CreateUserCreate(c) ==
    /\ pc = "race"
    /\ creating[c].pc = "create"
    /\ \E out \in RepoOutcomes :
         LET req == creating[c].req
             user == NewUser(req.Email, req.Username, req.Name, uuids + 1, clock + 1)
             created == Create(users, user, out)
         IN IF ~IsValid(user)
            THEN /\ svcLog' = Append(svcLog,
                                     Emit("UserService", "ERROR",
                                          "User creation failed - invalid data",
                                          <<"user", user>>))
                 /\ creating' = [creating EXCEPT
                                   ![c] = Returned(@, out, NilUser, ErrInvalidUserData)]
                 /\ users' = users
            ELSE IF created.err # ""
            THEN /\ svcLog' = Append(svcLog,
                                     Emit("UserService", "ERROR", "Failed to create user",
                                          <<"error", created.err, "user", user>>))
                 /\ creating' = [creating EXCEPT
                                   ![c] = Returned(@, out, NilUser,
                                                   "failed to create user: " \o created.err)]
                 /\ users' = users
            ELSE /\ svcLog' = Append(svcLog,
                                     Emit("UserService", "INFO", "User created successfully",
                                          <<"userID", user.ID, "email", user.Email>>))
                 /\ creating' = [creating EXCEPT ![c] = Returned(@, out, user, "")]
                 /\ users' = created.users
    /\ uuids' = uuids + 1
    /\ clock' = clock + 1
    /\ UNCHANGED <<pipeVars, sinkVars, persists, concVars, calls, call>>

NextCreateRace ==
    \E c \in Callers :
      \/ CreateUserGetByEmail(c)
      \/ CreateUserGetByUsername(c)
      \/ CreateUserCreate(c)

SpecCreateRace == InitCreateRace /\ [][NextCreateRace]_vars

(***************************************************************************)
(* Properties of the pipeline (checked under Spec).                        *)
(***************************************************************************)
\* the stages in which ContextMiddleware has exited
AfterContextStage == {"recoverExit", "errExit", "done"}
\* the stages before ContextMiddleware's deferred functions run
BeforeContextExit == {"idStage", "errStage", "recoverStage", "ctxStage", "handler",
                      "ctxExit"}

\* C1: once the context-injection stage has exited, by a handler that
\* returned (with or without recorded errors) or panicked, the Audit
\* Persister has been called exactly once, with the request's log buffer;
\* before that it has not been called.  (A Fatal* call ends the process in
\* the handler, pc = "exited": no stage exits and no deferred call runs.)
C1_AuditPersistedOnce ==
    /\ pc \in AfterContextStage => auditCalls = <<logs>>
    /\ pc \in BeforeContextExit => auditCalls = <<>>

C1_Witness ==
    /\ pc = "done"
    /\ handlerExit.how = "panic"
    /\ Len(logs) = 1
    /\ auditCalls = <<logs>>

\* C2: a request that recorded at least one error and completed has had the
\* Error Persister called exactly once, with the request's method, path,
\* client IP and request ID and with the non-empty text of gin's error list.
C2_ErrorReportPersistedOnce ==
    /\ Len(errCalls) <= 1
    /\ (pc = "done" /\ Len(ginErrors) >= 1) =>
         /\ Len(errCalls) = 1
         /\ errCalls[1].Method = Request.Method
         /\ errCalls[1].Path = Request.Path
         /\ errCalls[1].IP = Request.IP
         /\ errCalls[1].RequestID = keys[idKey].v
         /\ errCalls[1].Stack = ErrorsString(ginErrors, 1)
         /\ errCalls[1].Stack # ""

C2_Witness ==
    /\ pc = "done"
    /\ Len(ginErrors) = 2
    /\ Len(errCalls) = 1
    /\ errCalls[1].Stack = "Error #01: a custom error\nError #02: a custom error\n"

\* C3: while no error is recorded on the request the Error Persister has not
\* been called, whatever way the handler ended.
C3_NoErrorNoReport == Len(ginErrors) = 0 => errCalls = <<>>

C3_Witness ==
    /\ pc = "done"
    /\ handlerExit.how = "panic"
    /\ ginErrors = <<>>
    /\ errCalls = <<>>

\* C4: after a panic of the business handler the panic-recovery stage
\* recovers, no panic is in flight when the error-persistence stage resumes
\* or the chain ends, and at the end the Audit Persister has been called
\* once and, if errors were recorded, the Error Persister once.
C4_HandlerPanicRecovered ==
    /\ pc \in {"errExit", "done"} => panicking = NoPanic
    /\ (handlerExit.how = "panic" /\ pc \in {"errExit", "done"}) =>
         /\ Len(recovered) >= 1
         /\ recovered[1] = "Recover"
         /\ response.written
    /\ (handlerExit.how = "panic" /\ pc = "done") =>
         /\ Len(auditCalls) = 1
         /\ Len(ginErrors) > 0 => Len(errCalls) = 1

C4_Witness ==
    /\ pc = "done"
    /\ handlerExit.how = "panic"
    /\ handlerExit.panic.kind = "sie"
    /\ Len(ginErrors) = 1
    /\ Len(errCalls) = 1
    /\ Len(auditCalls) = 1

\* the calls made on the request's collector, as the base logger saw them
CollectorCalls == SelectSeq(baseLog, LAMBDA e : e.via = "webLog")

\* C5: after N calls on the collector the buffer holds N records, the i-th
\* tagged with the level of the i-th call.
C5_OneRecordPerCall ==
    /\ Len(logs) = Len(CollectorCalls)
    /\ \A i \in 1..Len(logs) : logs[i].Level = CollectorCalls[i].level

\* C6 as stated: the request ID is the header's value whenever the header is
\* present, else a generated token; every later stage and the report see it.
C6_HeaderReusedWhenPresent ==
    pc # "idStage" =>
      /\ header.present => RequestIdGetter(keys) = header.value
      /\ ~header.present => RequestIdGetter(keys) \in Tokens
      /\ pc # "errStage" => reqIDLocal = RequestIdGetter(keys)
      /\ \A i \in 1..Len(errCalls) : errCalls[i].RequestID = RequestIdGetter(keys)

\* C6 amended: the request ID is the header's value when the header is
\* present with a non-empty value, else (absent or empty) a generated
\* non-empty token; every later stage and the report see that value.
C6_HeaderReusedWhenNonEmpty ==
    pc # "idStage" =>
      /\ (header.present /\ header.value # "") => RequestIdGetter(keys) = header.value
      /\ ~(header.present /\ header.value # "") =>
           /\ RequestIdGetter(keys) \in Tokens
           /\ RequestIdGetter(keys) # ""
      /\ pc # "errStage" => reqIDLocal = RequestIdGetter(keys)
      /\ \A i \in 1..Len(errCalls) : errCalls[i].RequestID = RequestIdGetter(keys)

C6_Witness ==
    /\ pc = "done"
    /\ header = [present |-> TRUE, value |-> ""]
    /\ Len(errCalls) = 1
    /\ errCalls[1].RequestID \in Tokens

\* C9: when the Audit Persister's write has failed, the request goes on
\* without a panic and an error-level record carrying the buffer has been
\* written.
C9_AuditFailureLogged ==
    (pc \in AfterContextStage /\ auditResult = "error") =>
      /\ panicking = handlerExit.panic
      /\ \E i \in 1..Len(baseLog) :
           /\ baseLog[i].level = "ERROR"
           /\ baseLog[i].via \in {"Logs.Persist", "ContextMiddleware"}

\* the response the handler's own behaviour produces: what it wrote, and
\* the panic response if it panicked
HandlerResponse ==
    IF handlerExit.how = "panic"
    THEN PanicHandlerOf(wiring, handlerExit.response, handlerExit.panic)
    ELSE handlerExit.response

\* C10: the response of a completed request is the one the handler's
\* behaviour produces, whatever the two persisters did.
C10_ResponseIndependentOfPersisters == pc = "done" => response = HandlerResponse

\* the step calls the Audit Persister / the Error Persister
AuditPersistStep == auditCalls' # auditCalls
ErrorPersistStep == errCalls' # errCalls

\* C11 as stated: each Persist is invoked only when the handler has returned,
\* or has panicked and the panic has been recovered, and the buffer gets no
\* record once it has been handed over.
C11_PersistAfterHandlerRecovered ==
    [][/\ (AuditPersistStep \/ ErrorPersistStep) =>
            \/ handlerExit.how = "return"
            \/ handlerExit.how = "panic" /\ panicking = NoPanic /\ recovered # <<>>
       /\ auditCalls # <<>> => logs' = logs]_vars

\* C11 amended: the Audit Persister is invoked only after the handler has
\* returned or panicked, and after a panic while that panic is still
\* unwinding (before Recover); the Error Persister is invoked only after the
\* handler has returned or its panic has been recovered; the buffer gets no
\* record once it has been handed to the Audit Persister.
C11_PersistAfterHandlerFinished ==
    [][/\ AuditPersistStep =>
            \/ handlerExit.how = "return" /\ panicking = NoPanic
            \/ handlerExit.how = "panic" /\ panicking = handlerExit.panic
                                         /\ recovered = <<>>
       /\ ErrorPersistStep =>
            /\ auditCalls # <<>>
            /\ panicking = NoPanic
            /\ \/ handlerExit.how = "return"
               \/ handlerExit.how = "panic" /\ recovered = <<"Recover">>
       /\ auditCalls # <<>> => logs' = logs]_vars

C11_Witness ==
    /\ pc = "done"
    /\ handlerExit.how = "panic"
    /\ recovered = <<"Recover">>
    /\ Len(logs) = 1
    /\ auditCalls = <<logs>>
    /\ Len(errCalls) = 1

\* the step is Recover's deferred function recovering a panic
RecoverStep == pc = "recoverExit" /\ panicking # NoPanic /\ pc' = "errExit"
\* the body the claim expects for a recovered value
BodyOrRaw(err) == IF err.kind = "sie" THEN Obj(err.v) ELSE err

\* C12 as stated: a recovered panic yields exactly one response, of status
\* 500, whose body is the Body of a ServerInternalError and otherwise the
\* recovered value.
C12_Emits500BodyOrRaw ==
    [][RecoverStep =>
         /\ response'.written
         /\ response'.status = 500
         /\ response'.body = Append(response.body, BodyOrRaw(panicking))]_vars

\* C12 amended: a recovered panic makes Recover call main's panicHandler
\* once, and the handler renders exactly one JSON body with status 500: in
\* cmd/main.go the Body of a ServerInternalError and otherwise the recovered
\* value, in the layered main one fixed body whatever the value.  The
\* response has status 500 when nothing was written before the panic;
\* otherwise the earlier status stands and the body is added to it.
C12_EmitsOneBodyPerPanic ==
    [][RecoverStep =>
         /\ response'.written
         /\ response'.status = IF response.written THEN response.status ELSE 500
         /\ response'.body =
              Append(response.body,
                     IF wiring.main = "cmd" THEN BodyOrRaw(panicking)
                     ELSE InternalErrorBody)
         /\ panicking' = NoPanic
         /\ recovered' = Append(recovered, "Recover")]_vars

C12_Witness ==
    /\ pc = "done"
    /\ wiring.main = "cmd"
    /\ handlerExit.how = "panic"
    /\ handlerExit.panic.kind = "sie"
    /\ handlerExit.response.written
    /\ response.status = 200
    /\ response.body = <<Obj("user"), Obj("out of service")>>

\* C16: whatever the Audit Persister did (commit, error, panic), the Error
\* Persister is invoked exactly when errors were recorded; and the Audit
\* Persister is invoked on every exit of the context-injection stage,
\* before the Error Persister has had any outcome.
C16_PersistersIndependent ==
    [][/\ pc = "ctxExit" => (AuditPersistStep /\ errCalls = <<>>)
       /\ pc = "errExit" =>
            /\ auditResult \in DbOutcomes
            /\ ErrorPersistStep <=> Len(ginErrors) > 0]_vars

C16_Witness ==
    /\ pc = "done"
    /\ auditResult = "panic"
    /\ Len(auditCalls) = 1
    /\ Len(errCalls) = 1
    /\ errStore = <<>>
    /\ \E i \in 1..Len(baseLog) : baseLog[i].via = "Errors.Persist"

\* the scenario: the handler called Info("start") on the collector, recorded
\* the error "a custom error" and returned, and the request has completed
ScenarioDone ==
    /\ pc = "done"
    /\ handlerExit.how = "return"
    /\ CollectorCalls = <<Forward(<<"INFO", "plain">>, "start", <<>>)>>
    /\ ginErrors = <<"a custom error">>
\* one report was handed to the Error Persister, with the request's path
\* and the recorded error in its stack
ScenarioReport ==
    /\ Len(errCalls) = 1
    /\ errCalls[1].Path = Request.Path
    /\ errCalls[1].Stack = "Error #01: a custom error\n"

\* C17 as stated: the scenario ends with the buffer [{INFO, "start"}] handed
\* to the Audit Persister once and one error report.
C17_ScenarioBufferIsStart ==
    ScenarioDone =>
      /\ auditCalls = << <<[Level |-> "INFO", Msg |-> "start"]>> >>
      /\ ScenarioReport

\* C17 amended: the scenario ends with the buffer [{INFO, "[\"start\"]"}],
\* the message being the JSON text of the call's argument list, handed to
\* the Audit Persister once, and one error report whose path is the request
\* path and whose stack holds "a custom error".
C17_ScenarioBufferIsJSON ==
    ScenarioDone =>
      /\ auditCalls = << <<[Level |-> "INFO", Msg |-> "[\"start\"]"]>> >>
      /\ ScenarioReport

C17_Witness ==
    /\ ScenarioDone
    /\ ScenarioReport
    /\ auditCalls = <<logs>>
    /\ logs[1].Msg = "[\"start\"]"

(***************************************************************************)
(* Properties of the Error Persister (checked under SpecPersist).          *)
(***************************************************************************)
\* the Errors.Persist call made by the step, if the step is one
LastPersist == persists[Len(persists)]
\* the step is a Persist call whose store write returned an error
StoreWriteFailed == Len(persists') = Len(persists) + 1 /\ LastPersist'.db = "error"
\* the file the report of the call belongs in
FallbackFile(c) == "errors/error_" \o c.rec.RequestID \o "_" \o c.now \o ".json"
\* what a file held before the step
Before(path) == IF path \in DOMAIN files THEN files[path] ELSE <<>>
\* a payload that carries the report's six fields with the report's values
CarriesReport(data, rec) ==
    /\ {data.fields[i][1] : i \in 1..Len(data.fields)} =
         {"Stack", "Method", "URL", "Path", "IP", "RequestID"}
    /\ \A i \in 1..Len(data.fields) : data.fields[i][2] = rec[data.fields[i][1]]

\* C7 as stated: after a Persist call whose store write failed, the fallback
\* directory holds the file error_<requestID>_<timestamp>.json and its
\* content is the report's JSON payload.
C7_FileCreatedOnStoreFailure ==
    (Len(persists) > 0 /\ LastPersist.db = "error") =>
      /\ dirExists
      /\ FallbackFile(LastPersist) \in DOMAIN files
      /\ Len(files[FallbackFile(LastPersist)]) = 1
      /\ CarriesReport(files[FallbackFile(LastPersist)][1], LastPersist.rec)

\* C7 amended: a Persist call whose store write fails and whose fallback
\* (MkdirAll, OpenFile, Write) succeeds leaves the directory in place and
\* appends the report's JSON payload to error_<requestID>_<timestamp>.json:
\* the file holds that payload alone when it did not exist before.
C7_FileAppendedWhenFallbackSucceeds ==
    [][(StoreWriteFailed /\ LastPersist'.fs = "ok") =>
         LET c == LastPersist'
             path == FallbackFile(c)
         IN /\ dirExists'
            /\ path \in DOMAIN files'
            /\ Len(files'[path]) = Len(Before(path)) + 1
            /\ SubSeq(files'[path], 1, Len(Before(path))) = Before(path)
            /\ CarriesReport(files'[path][Len(files'[path])], c.rec)
            /\ \A q \in DOMAIN files : q # path => files'[q] = files[q]]_vars

C7_Witness ==
    /\ Len(persists) = 2
    /\ LastPersist.db = "error"
    /\ LastPersist.fs = "ok"
    /\ Len(files[FallbackFile(LastPersist)]) = 2
    /\ CarriesReport(files[FallbackFile(LastPersist)][2], LastPersist.rec)

\* the step is a Persist call whose store write and file fallback both failed
BothFailed == StoreWriteFailed /\ LastPersist'.fs # "ok"
\* the step added exactly one error-level record to the base logger
OneErrorRecord ==
    /\ Len(baseLog') = Len(baseLog) + 1
    /\ SubSeq(baseLog', 1, Len(baseLog)) = baseLog
    /\ baseLog'[Len(baseLog')].level = "ERROR"

\* C8 as stated: when both fail, Persist returns normally and its only
\* effect is an error-level log entry.
C8_OnlyEffectIsLogEntry ==
    [][BothFailed =>
         /\ ~LastPersist'.panic
         /\ OneErrorRecord
         /\ errStore' = errStore
         /\ dirExists' = dirExists
         /\ files' = files]_vars

\* C8 amended: when both fail, Persist returns normally, stores nothing and
\* writes exactly one error-level log entry; the failed fallback may leave
\* the fallback directory, an empty file or a partly written payload behind,
\* and never a complete payload.
C8_ReturnsAndLogsWhenBothFail ==
    [][BothFailed =>
         /\ ~LastPersist'.panic
         /\ OneErrorRecord
         /\ errStore' = errStore
         /\ dirExists => dirExists'
         /\ \A q \in DOMAIN files : q \in DOMAIN files'
         /\ \A q \in DOMAIN files' :
              \/ files'[q] = Before(q)
              \/ /\ q = FallbackFile(LastPersist')
                 /\ files'[q] = Append(Before(q),
                                       Partial(MarshalIndent(LastPersist'.rec)))]_vars

C8_Witness ==
    /\ Len(persists) = 1
    /\ LastPersist.db = "error"
    /\ LastPersist.fs = "openFail"
    /\ ~LastPersist.panic
    /\ dirExists
    /\ files = [q \in {} |-> <<>>]
    /\ Len(baseLog) = 1
    /\ baseLog[1].level = "ERROR"

\* the values a log record carries under its keys, the report aside
ErrorValues(r) ==
    {r.kv[2 * i] : i \in {j \in 1..(Len(r.kv) \div 2) : r.kv[2 * j - 1] # "errors"}}
\* the error saveToFile returns for an outcome of its system calls
FileError(fs) ==
    CASE fs = "mkdirFail" -> "mkdir failed"
      [] fs = "openFail" -> "open failed"
      [] OTHER -> "write failed"

\* C25: when the store write fails and the file fallback fails too, the
\* store error and the file error are both logged at error level.
C25_BothErrorsLogged ==
    [][BothFailed =>
         /\ OneErrorRecord
         /\ FileError(LastPersist'.fs) \in ErrorValues(baseLog'[Len(baseLog')])
         /\ StoreError \in ErrorValues(baseLog'[Len(baseLog')])]_vars

\* the step is a Persist call
PersistStep == Len(persists') = Len(persists) + 1
\* the three outcomes of the call of the step: the report is appended to
\* the store; its whole payload is appended to its fallback file; an
\* error-level record is logged
Stored == errStore' = Append(errStore, LastPersist'.rec)
Filed ==
    LET path == FallbackFile(LastPersist')
    IN /\ path \in DOMAIN files'
       /\ files'[path] = Append(Before(path), MarshalIndent(LastPersist'.rec))
Dropped == OneErrorRecord

\* C26: each report handed to Persist ends in exactly one of the three
\* outcomes; the file is tried only after a failed store write and the
\* record logged only after both failed; a successful store write writes
\* no file and logs nothing.
C26_ExactlyOneOutcome ==
    [][PersistStep =>
         /\ Cardinality({o \in {"stored", "filed", "dropped"} :
                           \/ o = "stored" /\ Stored
                           \/ o = "filed" /\ Filed
                           \/ o = "dropped" /\ Dropped}) = 1
         /\ Stored <=> LastPersist'.db = "commit"
         /\ Filed => LastPersist'.db = "error"
         /\ Dropped => LastPersist'.db = "error" /\ LastPersist'.fs # "ok"
         /\ Stored => files' = files /\ dirExists' = dirExists /\ baseLog' = baseLog]_vars

\* the Persist calls whose store write failed and whose fallback went well
LostToFile == {i \in 1..Len(persists) : persists[i].db = "error" /\ persists[i].fs = "ok"}

\* C15: any two reports whose store write fails and whose fallback write
\* succeeds are in two distinct files, and each of those files holds exactly
\* one payload, that of its report.
C15_OneFilePerLostReport ==
    \A i \in LostToFile :
      /\ FallbackFile(persists[i]) \in DOMAIN files
      /\ Len(files[FallbackFile(persists[i])]) = 1
      /\ CarriesReport(files[FallbackFile(persists[i])][1], persists[i].rec)
      /\ \A j \in LostToFile :
           i # j => FallbackFile(persists[i]) # FallbackFile(persists[j])

\* the context-injection stage is active: it has stored the Request Context
\* and its deferred functions have not run yet (or never will, the process
\* having exited inside the handler)
ContextStageActive == pc \in {"handler", "ctxExit", "exited"}

\* C30: ContextMiddlewareGetter reports the Request Context as found
\* exactly while the context-injection stage is active: not before the
\* stage has stored it, and not after the stage has exited, where the slot
\* is set and holds nil.
C30_FoundExactlyWhileActive ==
    /\ ContextMiddlewareGetter(keys) <=> ContextStageActive
    /\ pc \in {"idStage", "errStage", "recoverStage", "ctxStage"} => ~keys[webContextKey].set
    /\ pc \in {"recoverExit", "errExit", "done"} =>
         keys[webContextKey].set /\ keys[webContextKey].v = "nil"

C30_Witness ==
    /\ pc = "done"
    /\ handlerExit.how = "panic"
    /\ keys[webContextKey].set
    /\ ~ContextMiddlewareGetter(keys)

\* C28: a request whose handler and persisters return or panic completes
\* the whole chain: every stage it entered is exited, no panic is left
\* under way, and the handler has returned or its panic was recovered. The
\* one other end is the process exiting inside the handler.
C28_ChainCompletes ==
    <>(\/ pc = "exited"
       \/ /\ pc = "done"
          /\ panicking = NoPanic
          /\ handlerExit.how \in {"return", "panic"}
          /\ handlerExit.how = "panic" => Len(recovered) > 0)

C28_Witness ==
    /\ pc = "done"
    /\ panicking = NoPanic
    /\ handlerExit.how = "panic"
    /\ auditResult = "panic"
    /\ Len(errCalls) = 1
    /\ Len(recovered) = 2

\* the step is the exit of the error-persistence stage, and in it a call
\* of Persist that panicked
ErrorStageExit == pc = "errExit" /\ pc' # pc
PersistPanicked ==
    /\ ErrorStageExit
    /\ Len(errCalls') = Len(errCalls) + 1
    /\ recovered' = Append(recovered, "ErrorPersisterMiddleware")

\* C27: a panic of Persist inside the error-persistence stage is caught by
\* the stage's guard and only logged: the stage logs one error-level record
\* with the panic and the request's errors, leaves the response alone, and
\* no exit of the stage, whatever Persist did, leaves a panic under way.
C27_PersistPanicOnlyLogged ==
    [][/\ ErrorStageExit => pc' = "done" /\ panicking' = NoPanic
       /\ PersistPanicked =>
            /\ baseLog' = Append(baseLog, GuardRecord(RawPanic("Errors.Persist panic"),
                                                      ginErrors))
            /\ response' = response
            /\ errStore' = errStore
            /\ files' = files]_vars

C27_Witness ==
    /\ pc = "done"
    /\ Len(errCalls) = 1
    /\ errStore = <<>>
    /\ Len(recovered) > 0
    /\ recovered[Len(recovered)] = "ErrorPersisterMiddleware"
    /\ handlerExit.how = "return"
    /\ Len(baseLog) > 0
    /\ baseLog[Len(baseLog)] = GuardRecord(RawPanic("Errors.Persist panic"), ginErrors)
    /\ panicking = NoPanic
    /\ response = handlerExit.response

(***************************************************************************)
(* Properties of concurrent requests (checked under SpecConcurrent).       *)
(***************************************************************************)
\* the records that a sequence of calls on one collector leaves: one per
\* call that the base logger returned from
RECURSIVE RecordsOf(_)
RecordsOf(cs) ==
    IF cs = <<>> THEN <<>>
    ELSE LET c == cs[Len(cs)]
             before == RecordsOf(SubSeq(cs, 1, Len(cs) - 1))
         IN IF InnerOutcome(c[1][1]) = "return"
            THEN Append(before, [Level |-> c[1][1],
                                 Msg |-> jsonText(Arr(webLogArgs(c[1], c[2], c[3])))])
            ELSE before

\* C14: with requests in flight concurrently, the buffer of each request
\* holds the records of the calls made on that request's collector, in
\* order, and nothing else; that buffer is what the Audit Persister is
\* handed for the request, once.
C14_OwnBufferPerRequest ==
    /\ \A r \in Requests : webLoggers[r] = RecordsOf(collected[r])
    /\ \A i \in 1..Len(handed) :
         /\ handed[i].buffer = RecordsOf(collected[handed[i].req])
         /\ \A j \in 1..Len(handed) : handed[j].req = handed[i].req => j = i
    /\ \A r \in Requests :
         inflight[r] = "left" <=> \E i \in 1..Len(handed) : handed[i].req = r

C14_Witness ==
    /\ \A r \in Requests : inflight[r] = "left"
    /\ Len(baseLog) = 4
    /\ [i \in 1..4 |-> baseLog[i].msg] = <<"a", "b", "a", "b">>
    /\ Len(handed) = 2
    /\ handed[1] = [req |-> 2, out |-> "commit",
                    buffer |-> <<[Level |-> "WARN", Msg |-> "[\"b\",null]"],
                                 [Level |-> "WARN", Msg |-> "[\"b\",null]"]>>]
    /\ handed[2].req = 1
    /\ handed[2].buffer = <<[Level |-> "INFO", Msg |-> "[\"a\"]"],
                            [Level |-> "INFO", Msg |-> "[\"a\"]"]>>

(***************************************************************************)
(* Properties of a route without ContextMiddleware (checked under          *)
(* SpecNoContext).                                                         *)
(***************************************************************************)
\* the handler ended in the panic of WebContextMust
MustPanicked == handlerExit.panic.kind # "none" /\ handlerExit.panic = WebContextMustPanic
\* the fixed body main's panicHandler renders for that panic
MustBody ==
    IF wiring.main = "cmd" THEN Obj("WebContextMust not found") ELSE InternalErrorBody

CreateStep == calls' = calls + 1 /\ call'.op = "CreateUser"
UpdateStep == calls' = calls + 1 /\ call'.op = "UpdateUserProfile"
\* the repository calls of a given method that the call of the step made
CallsOf(method) == SelectSeq(call'.repo, LAMBDA c : c.method = method)
\* at the step, the repository reports an existing user with the request's
\* email / with the request's username: the lookup works and a row matches
EmailReported ==
    call'.outs[1] = "ok" /\ \E u \in users : u.Email = call'.req.Email
UsernameReported ==
    call'.outs[2] = "ok" /\ \E u \in users : u.Username = call'.req.Username
\* at the step, the repository's Create succeeds on the user it is given
CreateSucceeds ==
    /\ call'.outs[3] = "ok"
    /\ \A u \in users : u.Email # call'.req.Email /\ u.Username # call'.req.Username

\* C18: when the repository reports an existing user with the request's
\* email, or does not and reports one with the request's username,
\* CreateUser returns ErrUserAlreadyExists and no user, does not call
\* Create and leaves the table as it was.
C18_ExistingUserRejected ==
    [][(CreateStep /\ (EmailReported \/ UsernameReported)) =>
         /\ call'.err = ErrUserAlreadyExists
         /\ call'.user = NilUser
         /\ CallsOf("Create") = <<>>
         /\ users' = users]_vars

C18_Witness ==
    /\ calls = 2
    /\ call.op = "CreateUser"
    /\ call.outs[1] = "error"
    /\ call.outs[2] = "ok"
    /\ \E u \in users : u.Username = call.req.Username /\ u.Email # call.req.Email
    /\ call.repo = <<RepoCall("GetByEmail", call.req.Email),
                     RepoCall("GetByUsername", call.req.Username)>>
    /\ call.err = ErrUserAlreadyExists
    /\ call.user = NilUser
    /\ Cardinality(users) = 1

\* what CreateUser returns and stores when it creates the user
CreatedAsAsked ==
    /\ Len(CallsOf("Create")) = 1
    /\ call'.err = ""
    /\ call'.user.Email = call'.req.Email
    /\ call'.user.Username = call'.req.Username
    /\ call'.user.Name = call'.req.Name
    /\ call'.user.ID # NilID
    /\ CallsOf("Create")[1].arg = call'.user
    /\ users' = users \cup {call'.user}

ValidRequest ==
    call'.req.Email # "" /\ call'.req.Username # "" /\ call'.req.Name # ""

Existing == First({u \in users : u.ID = call'.req.ID})
ExistingFound == call'.outs[1] = "ok" /\ Existing # NilUser
\* the user after the profile update: the existing row but for the Name,
\* which is the request's, and UpdatedAt, which is later
ProfileUpdated(u) ==
    /\ u.ID = Existing.ID
    /\ u.Email = Existing.Email
    /\ u.Username = Existing.Username
    /\ u.CreatedAt = Existing.CreatedAt
    /\ u.Name = call'.req.Name
    /\ u.UpdatedAt > Existing.UpdatedAt
\* Update was called once, with the updated user, and a returned user is
\* that user
UpdatedOnce ==
    /\ Len(CallsOf("Update")) = 1
    /\ ProfileUpdated(CallsOf("Update")[1].arg)
    /\ call'.user # NilUser => call'.user = CallsOf("Update")[1].arg
    /\ call'.outs[2] = "ok" => (call'.err = "" /\ call'.user # NilUser)

DeleteStep == calls' = calls + 1 /\ call'.op = "DeleteUser"
GetStep == calls' = calls + 1 /\ call'.op = "GetUserByID"
ListStep == calls' = calls + 1 /\ call'.op = "ListUsers"
\* at the step of a call by ID, GetByID works and the table has a row of
\* the ID
RowOfID == First({u \in users : u.ID = call'.req})
RowFound == call'.outs[1] = "ok" /\ RowOfID # NilUser

\* C21: DeleteUser returns ErrUserNotFound, without calling Delete and
\* leaving the table as it was, whenever GetByID returns an error or no
\* user; when the user exists it calls Delete exactly once, for that ID,
\* and returns nil if Delete succeeds.
C21_DeleteLooksUpFirst ==
    [][DeleteStep =>
         /\ call'.repo[1] = RepoCall("GetByID", call'.req)
         /\ ~RowFound => /\ call'.err = ErrUserNotFound
                         /\ CallsOf("Delete") = <<>>
                         /\ users' = users
         /\ RowFound => /\ CallsOf("Delete") = <<RepoCall("Delete", call'.req)>>
                        /\ call'.outs[2] = "ok" => call'.err = ""]_vars

C21_Witness ==
    /\ calls = 2
    /\ call.op = "DeleteUser"
    /\ call.outs = <<"ok", "ok">>
    /\ call.repo = <<RepoCall("GetByID", call.req), RepoCall("Delete", call.req)>>
    /\ call.err = ""
    /\ users = {}

\* the limit of the claim: 10 for a request of 0 or less, 100 for one
\* above 100, the request's otherwise
ClaimedLimit ==
    IF call'.req.Limit <= 0 THEN 10
    ELSE IF call'.req.Limit > 100 THEN 100 ELSE call'.req.Limit

\* C22: every List call of ListUsers carries the request's offset and the
\* effective limit, which lies between 1 and 100; List is called once when
\* Count works; a response carries the effective limit.
C22_LimitClamped ==
    [][ListStep =>
         /\ \A i \in 1..Len(CallsOf("List")) :
              /\ CallsOf("List")[i].arg = <<call'.req.Offset, ClaimedLimit>>
              /\ CallsOf("List")[i].arg[2] \in 1..100
         /\ call'.outs[1] = "ok" => Len(CallsOf("List")) = 1
         /\ call'.err = "" => call'.resp.Limit = ClaimedLimit]_vars

C22_Witness ==
    /\ call.op = "ListUsers"
    /\ call.req.Limit = 101
    /\ call.err = ""
    /\ call.resp.Limit = 100
    /\ call.repo = <<RepoCall("Count", <<>>), RepoCall("List", <<call.req.Offset, 100>>)>>
    /\ Len(call.resp.Users) = 1

\* C23: in a successful ListUsers response Total is the repository's
\* count, Offset the requested offset, and HasMore is true exactly when
\* Offset plus the effective Limit is less than Total.
C23_HasMoreIsSumBelowTotal ==
    [][(ListStep /\ call'.err = "") =>
         /\ call'.resp.Total = Cardinality(users)
         /\ call'.resp.Offset = call'.req.Offset
         /\ call'.resp.HasMore <=>
              (call'.resp.Offset + call'.resp.Limit < call'.resp.Total)]_vars

\* C24: GetUserByID returns the repository's user unchanged and no error
\* when the repository finds one, and no user with ErrUserNotFound whenever
\* the repository returns an error or no user; it leaves the table alone.
C24_GetReturnsRowOrNotFound ==
    [][GetStep =>
         /\ call'.repo = <<RepoCall("GetByID", call'.req)>>
         /\ RowFound => call'.user = RowOfID /\ call'.err = ""
         /\ ~RowFound => call'.user = NilUser /\ call'.err = ErrUserNotFound
         /\ users' = users]_vars

C24_Witness ==
    /\ call.op = "GetUserByID"
    /\ call.outs = <<"ok">>
    /\ call.user \in users
    /\ call.user.ID = call.req
    /\ call.err = ""

(***************************************************************************)
(* Properties of concurrent CreateUser calls (checked under                *)
(* SpecCreateRace).                                                        *)
(***************************************************************************)
\* two different calls that carry the same email or the same username, have
\* both returned, and whose repository calls met no database failure
Rivals(c, d) ==
    /\ c # d
    /\ creating[c].pc = "returned" /\ creating[d].pc = "returned"
    /\ \/ creating[c].req.Email = creating[d].req.Email
       \/ creating[c].req.Username = creating[d].req.Username
    /\ \A i \in 1..Len(creating[c].outs) : creating[c].outs[i] = "ok"
    /\ \A i \in 1..Len(creating[d].outs) : creating[d].outs[i] = "ok"

\* C29: of concurrent CreateUser calls that carry the same email or the
\* same username, at most one creates a user and every other one returns
\* ErrUserAlreadyExists, however the calls interleave.
C29_OneCreatesOthersAlreadyExist ==
    \A c \in DOMAIN creating : \A d \in DOMAIN creating :
      Rivals(c, d) =>
        /\ ~(creating[c].err = "" /\ creating[d].err = "")
        /\ creating[c].err = "" => creating[d].err = ErrUserAlreadyExists

====
